---- MODULE Spec2Model ----
(***************************************************************************)
(* Watershed delineation engine of dsi_watershed_delineation:              *)
(*   - the stack-based upstream trace   (src/src/delineator.py)            *)
(*   - the pour-point snap              (src/src/snap_pour_point.py)       *)
(*   - the per-point batch loop         (src/src/processing.py)            *)
(*   - the mask polygonizer             (src/src/polygonize.py)            *)
(*   - the river clip                   (src/src/processing.py)            *)
(*   - the run of delineate_upstream    (src/src/delineate_upstream.py)    *)
(* Grids are 0-indexed, cell <<r, c>> is row r and column c, as in numpy.  *)
(***************************************************************************)
EXTENDS Integers, Sequences, FiniteSets, TLC

VARIABLES
    drainage_direction,   \* the direction grid: [shape, data]
    pour_point_coords,    \* <<row, col>> handed to the trace
    upstream_area,        \* the mask the trace writes
    stack,                \* the work list of calculate_upstream_v2
    pc,                   \* position of the trace
    pushed,               \* history: every append to the work list, in order
    accum,                \* the flow-accumulation grid: [shape, data]
    coord,                \* nominal coordinate <<x, y>> of the pour point
    n_neighbour,          \* radius of the search window
    central_list,         \* <<row, col>> of the nominal coordinate
    pour_point_rc,        \* <<row, col>> the snap selected
    snapped_pour_point_xy,\* coordinate the snap returns
    snap_pc,              \* position of the snap
    points,               \* the outlet table handed to process_watershed_points
    points_copy,          \* the copy that receives the derived columns
    point_i,              \* number of rows the for loop has finished
    batch_pc,             \* position of process_watershed_points
    raster_array,         \* the mask handed to raster_to_polygon: [shape, data]
    polygons,             \* the value-1 shapes, in the order shapes() yielded them
    subbasin,             \* the polygon raster_to_polygon returns: [cells, area]
    poly_pc,              \* position of raster_to_polygon
    river_vector,         \* the river network: [columns, rows], or NoRiver
    min_strahler_order,   \* MIN_STRAHLER
    clipped_river_network,\* the rows clip_river_network returns and saves
    clip_feedback,             \* the feedback dictionary's river_status
    warnings_issued,      \* the UserWarnings issued so far, in order
    clip_pc,              \* position of clip_river_network
    config,               \* the settings of the configuration file
    outlet_file,          \* the table the OUTLETS file holds: [columns, rows]
    direction_type,       \* DRAINAGE_DIRECTION_TYPE as process_watershed_points receives it
    outlets,              \* the table read_outlets returns
    points_labelled,      \* the outlets joined to the watersheds (partial mode)
    unique_watershed_ids, \* the watershed ids in order of first appearance
    watershed_i,          \* number of watersheds the for loop has finished
    points_new,           \* the result table of delineate_upstream
    report,               \* the rows written to the report file
    run_pc,               \* position of delineate_upstream
    first_mask,           \* the mask an earlier call of the trace returned
    first_grid,           \* the direction grid as it was before that call
    run_no                \* number of the running call of the trace

traceVars == <<drainage_direction, pour_point_coords, upstream_area, stack, pc, pushed>>

snapVars == <<accum, coord, n_neighbour, central_list, pour_point_rc,
              snapped_pour_point_xy, snap_pc>>

batchVars == <<points, points_copy, point_i, batch_pc>>

polyVars == <<raster_array, polygons, subbasin, poly_pc>>

riverVars == <<river_vector, min_strahler_order, clipped_river_network, clip_feedback,
               warnings_issued, clip_pc>>

runVars == <<config, outlet_file, direction_type, outlets, points_labelled, unique_watershed_ids,
             watershed_i, points_new, report, run_pc>>

twiceVars == <<first_mask, first_grid, run_no>>

\* what the trace, the snap and the batch loop themselves never touch
outerVars == <<polyVars, riverVars, runVars, twiceVars>>

vars == <<traceVars, snapVars, batchVars, polyVars, riverVars, runVars, twiceVars>>

-----------------------------------------------------------------------------
(* Bounds                                                                  *)

\* largest number of rows / columns of an enumerated grid
MaxDim == 2
\* largest number of cells of an enumerated grid
MaxCells == 4
\* raw direction values are drawn from -MaxNeg..MaxVal: the legal 1..8 and
\* illegal values on both sides
MaxNeg == 1
MaxVal == 9
\* pour cells are drawn up to PourMargin cells outside the grid on each side
PourMargin == 1
\* the history of pushes is cut off at this length (a trace on a cyclic grid
\* pushes for ever)
MaxPushed == 9
\* the search radius is drawn from 0..MaxNeighbour
MaxNeighbour == 1
\* nominal coordinates are drawn up to CoordMargin cells outside the grid
CoordMargin == 1
\* an outlet table has 1..MaxPoints rows
MaxPoints == 2
\* Strahler orders are drawn from 1..MaxStrahler
MaxStrahler == 2

-----------------------------------------------------------------------------
(* Grids                                                                   *)

Cells(shape) == (0 .. shape[1] - 1) \X (0 .. shape[2] - 1)

InBounds(r, c, shape) == 0 <= r /\ r < shape[1] /\ 0 <= c /\ c < shape[2]

Grid(shape, f) == [shape |-> shape, data |-> f]

\* np.zeros_like(drainage_direction)
ZerosLike(g) == Grid(g.shape, [cell \in Cells(g.shape) |-> 0])

NoGrid == Grid(<<0, 0>>, <<>>)

Shapes == {s \in (1 .. MaxDim) \X (1 .. MaxDim) : s[1] * s[2] <= MaxCells}

\* Scenario A of the specification: 5x5, every cell points due south (grass
\* code 6)
ScenarioShape == <<5, 5>>
ScenarioPour == <<4, 2>>
ScenarioGrid == Grid(ScenarioShape, [cell \in Cells(ScenarioShape) |-> 6])

-----------------------------------------------------------------------------
(* calculate_upstream_v2                                                   *)

\* the offsets listed clockwise from east (the row sign flipped)
offsets_Clockwise == << <<0, 1>>, <<1, 1>>, <<1, 0>>, <<1, -1>>,
                        <<0, -1>>, <<-1, -1>>, <<-1, 0>>, <<-1, 1>> >>

\* the D8 offsets, offsets[direction] for direction 0..7 (1-indexed here)
offsets == << <<0, 1>>, <<-1, 1>>, <<-1, 0>>, <<-1, -1>>,
              <<0, -1>>, <<1, -1>>, <<1, 0>>, <<1, 1>> >>

Directions == <<0, 1, 2, 3, 4, 5, 6, 7>>

Next_r(r, direction) == r + offsets[direction + 1][1]

\* the column offset taken twice: the neighbour is looked up two columns away
Next_c_Stride(c, direction) == c + 2 * offsets[direction + 1][2]

Next_c(c, direction) == c + offsets[direction + 1][2]

\* the test of line 175 without the half turn: a neighbour is accepted when
\* its code points away from (r, c), in `direction`, instead of back at it
DrainsInto_SameDir(g, r, c, direction) ==
    /\ InBounds(Next_r(r, direction), Next_c(c, direction), g.shape)
    /\ (g.data[<<Next_r(r, direction), Next_c(c, direction)>>] - 1) % 8
         = (7 + direction) % 8

\* lines 172-175: the neighbour in `direction` is inside the grid and its raw
\* value, reduced modulo 8, is the code that points back at (r, c)
DrainsInto(g, r, c, direction) ==
    /\ InBounds(Next_r(r, direction), Next_c(c, direction), g.shape)
    /\ (g.data[<<Next_r(r, direction), Next_c(c, direction)>>] - 1) % 8
         = (7 + direction - 4) % 8

\* the for loop without the bounds test of line 172: an index past an edge
\* wraps to the opposite edge of the grid
Appended_Wrapped(g, r, c) ==
    LET wrapped(d) == <<Next_r(r, d) % g.shape[1], Next_c(c, d) % g.shape[2]>>
        ds == SelectSeq(Directions,
                        LAMBDA d : (g.data[wrapped(d)] - 1) % 8 = (7 + d - 4) % 8)
    IN  [k \in 1 .. Len(ds) |-> wrapped(ds[k])]

\* the neighbours appended by one pass of the for loop, in direction order
Appended(g, r, c) ==
    LET ds == SelectSeq(Directions, LAMBDA d : DrainsInto(g, r, c, d))
    IN  [k \in 1 .. Len(ds) |-> <<Next_r(r, ds[k]), Next_c(c, ds[k])>>]

Range(s) == {s[k] : k \in DOMAIN s}

\* upstream_area[cell] = 1 for every cell of `cells`
Mark(mask, cells) ==
    [mask EXCEPT !.data = [cell \in DOMAIN @ |-> IF cell \in cells THEN 1 ELSE @[cell]]]

\* a negative index counts from the end of the axis
WrapIdx(i, n) == IF i < 0 THEN i + n ELSE i

\* line 159 left out: the pour cell is pushed but never marked
PourWrite_NoMark(shape, row, col) == {}

\* The cells that `upstream_area[row, col] = 1` (line 159) can write.  An
\* index inside -n..n-1 on both axes writes the wrapped cell.  Outside that,
\* the compiled function does no bounds check: the write lands at the flat
\* offset row*cols+col, inside the mask or outside of it ({} = nothing of the
\* mask is changed).
PourWrite(shape, row, col) ==
    LET wr == WrapIdx(row, shape[1])
        wc == WrapIdx(col, shape[2])
        flat == wr * shape[2] + wc
    IN  IF InBounds(wr, wc, shape) THEN {<<wr, wc>>}
        ELSE IF 0 <= flat /\ flat < shape[1] * shape[2]
             THEN {<<flat \div shape[2], flat % shape[2]>>}
             ELSE {}

PourIndexDefined(shape, row, col) ==
    InBounds(WrapIdx(row, shape[1]), WrapIdx(col, shape[2]), shape)

\* lines 146-159: allocate the mask, push the pour cell, mark it
TraceStart ==
    /\ pc = "start"
    /\ stack' = <<pour_point_coords>>
    /\ pushed' = <<pour_point_coords>>
    /\ upstream_area' = Mark(ZerosLike(drainage_direction),
                             PourWrite(drainage_direction.shape,
                                       pour_point_coords[1], pour_point_coords[2]))
    /\ pc' = "loop"
    /\ UNCHANGED <<drainage_direction, pour_point_coords>>
    /\ UNCHANGED snapVars
    /\ UNCHANGED <<batchVars, outerVars>>

\* line 159 with an index outside the mask is undefined: besides the stray
\* write of TraceStart the run can end in a crash
TraceCrash ==
    /\ pc = "start"
    /\ ~PourIndexDefined(drainage_direction.shape,
                         pour_point_coords[1], pour_point_coords[2])
    /\ pc' = "crashed"
    /\ UNCHANGED <<drainage_direction, pour_point_coords, upstream_area, stack, pushed>>
    /\ UNCHANGED snapVars
    /\ UNCHANGED <<batchVars, outerVars>>

\* the accepted neighbours blanked in the direction grid as a visited marker
DirectionAfter_Blanked(g, cells) ==
    [g EXCEPT !.data = [cell \in DOMAIN @ |-> IF cell \in cells THEN 0 ELSE @[cell]]]

\* lines 162-178 store into upstream_area alone (line 176); the direction
\* grid is read (line 175) and left as it is
DirectionAfter(g, cells) == g

\* lines 162-178: one iteration of the while loop
TracePop ==
    /\ pc = "loop"
    /\ stack /= <<>>
    /\ LET top == stack[Len(stack)]
           new == Appended(drainage_direction, top[1], top[2])
       IN  /\ Len(pushed) + Len(new) <= MaxPushed
           /\ stack' = SubSeq(stack, 1, Len(stack) - 1) \o new
           /\ pushed' = pushed \o new
           /\ upstream_area' = Mark(upstream_area, Range(new))
           /\ drainage_direction' = DirectionAfter(drainage_direction, Range(new))
    /\ UNCHANGED <<pour_point_coords, pc>>
    /\ UNCHANGED snapVars
    /\ UNCHANGED <<batchVars, outerVars>>

\* line 180
TraceReturn ==
    /\ pc = "loop"
    /\ stack = <<>>
    /\ pc' = "done"
    /\ UNCHANGED <<drainage_direction, pour_point_coords, upstream_area, stack, pushed>>
    /\ UNCHANGED snapVars
    /\ UNCHANGED <<batchVars, outerVars>>

\* the snap is not running
SnapIdle ==
    /\ accum = [shape |-> <<0, 0>>, data |-> <<>>]
    /\ coord = <<>>
    /\ n_neighbour = 0
    /\ central_list = <<>>
    /\ pour_point_rc = <<>>
    /\ snapped_pour_point_xy = <<>>
    /\ snap_pc = "idle"

NoPolygon == <<>>
NoRiver == <<>>
NoFeedback == <<>>

\* clip_river_network is not running, no river network is loaded
RiverIdle ==
    /\ river_vector = NoRiver
    /\ min_strahler_order = 1
    /\ clipped_river_network = <<>>
    /\ clip_feedback = NoFeedback
    /\ warnings_issued = <<>>
    /\ clip_pc = "idle"

\* raster_to_polygon is not running
PolyIdle ==
    /\ raster_array = NoGrid
    /\ polygons = <<>>
    /\ subbasin = NoPolygon
    /\ poly_pc = "idle"

NoConfig == <<>>

\* delineate_upstream is not running; process_watershed_points, when called,
\* is called for the grass encoding
RunIdle ==
    /\ config = NoConfig
    /\ outlet_file = NoConfig
    /\ direction_type = "grass"
    /\ outlets = <<>>
    /\ points_labelled = <<>>
    /\ unique_watershed_ids = <<>>
    /\ watershed_i = 0
    /\ points_new = <<>>
    /\ report = <<>>
    /\ run_pc = "idle"

\* a single call of the trace
TwiceIdle ==
    /\ first_mask = NoGrid
    /\ first_grid = NoGrid
    /\ run_no = 1

\* process_watershed_points is not running
BatchIdle ==
    /\ points = <<>>
    /\ points_copy = <<>>
    /\ point_i = 0
    /\ batch_pc = "idle"


PourCells(shape) ==
    ((0 - PourMargin) .. (shape[1] - 1 + PourMargin))
        \X ((0 - PourMargin) .. (shape[2] - 1 + PourMargin))

TraceInit ==
    /\ \/ \E shape \in Shapes :
             /\ drainage_direction \in
                    {Grid(shape, f) : f \in [Cells(shape) -> (0 - MaxNeg) .. MaxVal]}
             /\ pour_point_coords \in PourCells(shape)
       \/ /\ drainage_direction = ScenarioGrid
          /\ pour_point_coords = ScenarioPour
    /\ upstream_area = NoGrid
    /\ stack = <<>>
    /\ pushed = <<>>
    /\ pc = "start"
    /\ SnapIdle
    /\ BatchIdle
    /\ PolyIdle
    /\ RiverIdle
    /\ RunIdle
    /\ TwiceIdle

TraceNext == TraceStart \/ TraceCrash \/ TracePop \/ TraceReturn

Spec == TraceInit /\ [][TraceNext]_vars

-----------------------------------------------------------------------------
(* calculate_upstream_v1, the recursive trace                              *)

\* lines 90-115, traverse_upstream(r, c): `area` is the set of cells marked
\* so far, the result is the set marked when the call returns.  A cell
\* outside the grid (lines 92-93) or already marked (lines 96-97) returns at
\* once; else the cell is marked (line 100) and the eight directions are
\* visited in order (lines 103-115).
RECURSIVE traverse_upstream(_, _, _, _)
RECURSIVE VisitDirections(_, _, _, _, _)
traverse_upstream(g, area, r, c) ==
    IF ~InBounds(r, c, g.shape) THEN area
    ELSE IF <<r, c>> \in area THEN area
    ELSE VisitDirections(g, area \cup {<<r, c>>}, r, c, 0)

\* lines 103-115 from `direction` on: the test of lines 112-113 is the test
\* of lines 172-175
VisitDirections(g, area, r, c, direction) ==
    IF direction = 8 THEN area
    ELSE VisitDirections(g,
             IF DrainsInto(g, r, c, direction)
             THEN traverse_upstream(g, area, Next_r(r, direction), Next_c(c, direction))
             ELSE area,
             r, c, direction + 1)

\* lines 81-120
calculate_upstream_v1(g, pour) ==
    Mark(ZerosLike(g), traverse_upstream(g, {}, pour[1], pour[2]))

-----------------------------------------------------------------------------
(* calculate_upstream_v2 called twice with the same arguments              *)

\* the caller keeps the mask of the first call and calls the trace again
\* with the same direction grid and the same pour cell
TraceAgain ==
    /\ pc = "done"
    /\ run_no = 1
    /\ first_mask' = upstream_area
    /\ run_no' = 2
    /\ upstream_area' = NoGrid
    /\ stack' = <<>>
    /\ pushed' = <<>>
    /\ pc' = "start"
    /\ UNCHANGED <<drainage_direction, pour_point_coords, first_grid>>
    /\ UNCHANGED <<snapVars, batchVars, polyVars, riverVars, runVars>>

\* every enumerated grid with every pour cell inside it; first_grid keeps
\* the grid as it is handed to the first call
TwiceInit ==
    /\ \E shape \in Shapes :
          /\ drainage_direction \in
                 {Grid(shape, f) : f \in [Cells(shape) -> (0 - MaxNeg) .. MaxVal]}
          /\ pour_point_coords \in Cells(shape)
    /\ first_grid = drainage_direction
    /\ first_mask = NoGrid
    /\ run_no = 1
    /\ upstream_area = NoGrid
    /\ stack = <<>>
    /\ pushed = <<>>
    /\ pc = "start"
    /\ SnapIdle
    /\ BatchIdle
    /\ PolyIdle
    /\ RiverIdle
    /\ RunIdle

TwiceNext == TraceStart \/ TracePop \/ TraceReturn \/ TraceAgain

SpecTwice == TwiceInit /\ [][TwiceNext]_vars

-----------------------------------------------------------------------------
(* calculate_upstream_v2 on grids three cells wide                         *)

\* the grids of three cells in a row or in a column with every raw value,
\* and the 3x3 grids whose cells drain west, south or east
WideShape == <<3, 3>>
WideValues == {4, 6, 8}
LineShapes == {<<1, 3>>, <<3, 1>>}

WideGrids ==
    {Grid(WideShape, f) : f \in [Cells(WideShape) -> WideValues]}
        \cup UNION {{Grid(shape, f) : f \in [Cells(shape) -> (0 - MaxNeg) .. MaxVal]} :
                       shape \in LineShapes}

WideInit ==
    /\ drainage_direction \in WideGrids
    /\ pour_point_coords \in Cells(drainage_direction.shape)
    /\ upstream_area = NoGrid
    /\ stack = <<>>
    /\ pushed = <<>>
    /\ pc = "start"
    /\ SnapIdle
    /\ BatchIdle
    /\ PolyIdle
    /\ RiverIdle
    /\ RunIdle
    /\ TwiceIdle

WideNext == TraceStart \/ TracePop \/ TraceReturn

SpecWide == WideInit /\ [][WideNext]_vars

-----------------------------------------------------------------------------
(* The grid transform (rasterio dataset: bounds, transform, index)         *)

\* one length unit is half a pixel: pixel_size = (gt[0], gt[4]) = (2, -2)
PixelSizeX == 2
PixelSizeY == -2
\* data.bounds.left, data.bounds.top
BoundsLeft == 10
BoundsTop == 30

\* the index rounded to the nearest cell origin in place of the floor
Index_Nearest(x, y) ==
    <<(BoundsTop - y + ((0 - PixelSizeY) \div 2)) \div (0 - PixelSizeY),
      (x - BoundsLeft + (PixelSizeX \div 2)) \div PixelSizeX>>

\* data.index(x, y): the cell that contains the coordinate (floor division)
Index(x, y) ==
    <<(BoundsTop - y) \div (0 - PixelSizeY), (x - BoundsLeft) \div PixelSizeX>>

\* the half-pixel shift of lines 99-100 left out: the cell's top-left corner
CellCentre_Corner(row, col) ==
    <<BoundsLeft + PixelSizeX * col, BoundsTop - (0 - PixelSizeY) * row>>

\* lines 99-100: the centre of cell (row, col)
CellCentre(row, col) ==
    <<BoundsLeft + PixelSizeX * col + (PixelSizeX \div 2),
      BoundsTop - (0 - PixelSizeY) * row - ((0 - PixelSizeY) \div 2)>>

-----------------------------------------------------------------------------
(* resample_matrix and calculate_new_pour_point                            *)

\* the generation order of the loops swapped: row offset outer, column inner
resample_matrix_RowMajor(central, n) ==
    [k \in 1 .. (2 * n + 1) * (2 * n + 1) |->
        <<central[1] + (((k - 1) \div (2 * n + 1)) - n),
          central[2] + (((k - 1) % (2 * n + 1)) - n)>>]

\* line 57: [[x+i, y+j] for j in range(-n, n+1) for i in range(-n, n+1)];
\* j (the column offset) is the outer loop, i (the row offset) the inner one.
\* Element k is <<row, col>> = <<search_rows[k], search_cols[k]>>.
resample_matrix(central, n) ==
    [k \in 1 .. (2 * n + 1) * (2 * n + 1) |->
        <<central[1] + (((k - 1) % (2 * n + 1)) - n),
          central[2] + (((k - 1) \div (2 * n + 1)) - n)>>]

\* numpy integer-array indexing: every index must lie in -n..n-1 of its axis
IndexOk(g, rc) ==
    /\ 0 - g.shape[1] <= rc[1] /\ rc[1] < g.shape[1]
    /\ 0 - g.shape[2] <= rc[2] /\ rc[2] < g.shape[2]

\* data_matrix[r, c]: a negative index counts from the end of the axis
At(g, rc) == g.data[<<WrapIdx(rc[1], g.shape[1]), WrapIdx(rc[2], g.shape[2])>>]

\* line 90: temp = data_matrix[search_rows, search_cols]
Temp(g, search) == [k \in DOMAIN search |-> At(g, search[k])]

\* line 93: temp.argmax(), the first index that holds the maximum
argmax(temp) ==
    CHOOSE k \in DOMAIN temp :
        /\ \A m \in DOMAIN temp : temp[m] <= temp[k]
        /\ \A m \in DOMAIN temp : m < k => temp[m] < temp[k]

NoCell == <<>>

\* lines 80-84
SnapIndex ==
    /\ snap_pc = "start"
    /\ central_list' = Index(coord[1], coord[2])
    /\ snap_pc' = "search"
    /\ UNCHANGED <<accum, coord, n_neighbour, pour_point_rc, snapped_pour_point_xy>>
    /\ UNCHANGED traceVars
    /\ UNCHANGED <<batchVars, outerVars>>

\* lines 86-96
SnapSearch ==
    /\ snap_pc = "search"
    /\ LET search == resample_matrix(central_list, n_neighbour)
       IN  IF \A k \in DOMAIN search : IndexOk(accum, search[k])
           THEN /\ pour_point_rc' = search[argmax(Temp(accum, search))]
                /\ snap_pc' = "found"
           ELSE /\ pour_point_rc' = pour_point_rc
                /\ snap_pc' = "IndexError"
    /\ UNCHANGED <<accum, coord, n_neighbour, central_list, snapped_pour_point_xy>>
    /\ UNCHANGED traceVars
    /\ UNCHANGED <<batchVars, outerVars>>

\* lines 98-116
SnapReturn ==
    /\ snap_pc = "found"
    /\ snapped_pour_point_xy' = CellCentre(pour_point_rc[1], pour_point_rc[2])
    /\ snap_pc' = "done"
    /\ UNCHANGED <<accum, coord, n_neighbour, central_list, pour_point_rc>>
    /\ UNCHANGED traceVars
    /\ UNCHANGED <<batchVars, outerVars>>

\* Scenario D of the specification: a 3x3 grid holding 1..9 in row-major order
ScenarioDShape == <<3, 3>>
ScenarioDGrid == Grid(ScenarioDShape, [cell \in Cells(ScenarioDShape) |-> 3 * cell[1] + cell[2] + 1])

\* the enumerated accumulation grids: every 3x3 grid over two values (ties
\* of every size); Scenario D adds a grid of nine distinct values
AccShape == <<3, 3>>
AccumValues == {0, 1}

\* the top-left corner and the centre of every cell up to CoordMargin cells
\* outside the grid
Coords(shape) ==
    {<<BoundsLeft + PixelSizeX * c + d, BoundsTop - (0 - PixelSizeY) * r - d>> :
        r \in (0 - CoordMargin) .. (shape[1] - 1 + CoordMargin),
        c \in (0 - CoordMargin) .. (shape[2] - 1 + CoordMargin),
        d \in {0, 1}}

TraceIdle ==
    /\ drainage_direction = NoGrid
    /\ pour_point_coords = NoCell
    /\ upstream_area = NoGrid
    /\ stack = <<>>
    /\ pushed = <<>>
    /\ pc = "idle"

SnapInit ==
    /\ \/ accum \in {Grid(AccShape, f) : f \in [Cells(AccShape) -> AccumValues]}
       \/ accum = ScenarioDGrid
    /\ coord \in Coords(accum.shape)
    /\ n_neighbour \in 0 .. MaxNeighbour
    /\ central_list = NoCell
    /\ pour_point_rc = NoCell
    /\ snapped_pour_point_xy = NoCell
    /\ snap_pc = "start"
    /\ TraceIdle
    /\ BatchIdle
    /\ PolyIdle
    /\ RiverIdle
    /\ RunIdle
    /\ TwiceIdle

SnapNext == SnapIndex \/ SnapSearch \/ SnapReturn

SpecSnap == SnapInit /\ [][SnapNext]_vars

-----------------------------------------------------------------------------
(* raster_to_polygon (src/src/polygonize.py)                               *)

Adjacent8(a, b) ==
    /\ a /= b
    /\ a[1] - b[1] \in {-1, 0, 1}
    /\ a[2] - b[2] \in {-1, 0, 1}

Adjacent4(a, b) ==
    \/ (a[1] = b[1] /\ a[2] - b[2] \in {-1, 1})
    \/ (a[2] = b[2] /\ a[1] - b[1] \in {-1, 1})

RECURSIVE Grow8(_, _)
Grow8(S, region) ==
    LET S2 == S \cup {b \in region : \E a \in S : Adjacent8(a, b)}
    IN  IF S2 = S THEN S ELSE Grow8(S2, region)

RECURSIVE Components(_)
Components(set) ==
    IF set = {} THEN {}
    ELSE LET region == Grow8({CHOOSE cell \in set : TRUE}, set)
         IN  {region} \cup Components(set \ region)

\* the test `if value == 1` of line 88 left out: the shapes of the cells
\* holding 0 are kept as well
Polygons_AnyValue(mask) ==
    Components({cell \in Cells(mask.shape) : mask.data[cell] = 1})
        \cup Components({cell \in Cells(mask.shape) : mask.data[cell] = 0})

\* line 88: the shapes of value 1 that shapes(mask, connectivity=8) yields
Polygons(mask) ==
    LET set == {cell \in Cells(mask.shape) : mask.data[cell] = 1}
    IN  {Grow8({cell}, set) : cell \in set}

RECURSIVE Grow4(_, _)
Grow4(S, region) ==
    LET S2 == S \cup {b \in region : \E a \in S : Adjacent4(a, b)}
    IN  IF S2 = S THEN S ELSE Grow4(S2, region)

OnBorder(cell, shape) ==
    \/ cell[1] = 0 \/ cell[1] = shape[1] - 1
    \/ cell[2] = 0 \/ cell[2] = shape[2] - 1

\* line 93 with the last ring, coordinates[-1], in place of the first: for a
\* shape that encloses free cells the polygon is the one of a hole
ExteriorCells_LastRing(shape_cells, shape) ==
    LET free == Cells(shape) \ shape_cells
        outside == Grow4({cell \in free : OnBorder(cell, shape)}, free)
    IN  IF free \ outside = {} THEN Cells(shape) \ outside ELSE free \ outside

\* lines 93-95: the polygon is built from the exterior ring alone, so it
\* covers the cells of the shape and the cells the shape encloses
ExteriorCells(shape_cells, shape) ==
    LET free == Cells(shape) \ shape_cells
        outside == Grow4({cell \in free : OnBorder(cell, shape)}, free)
    IN  Cells(shape) \ outside

\* the area of the polygon, counted in cells
ExteriorArea(shape_cells, shape) == Cardinality(ExteriorCells(shape_cells, shape))

\* the area of one cell in tenths of a square kilometre (12.5 km2)
CellArea == 125

\* lines 99-101: CalculatedArea[km2], here in tenths of a square kilometre
CalculatedArea(shape_cells, shape) == CellArea * ExteriorArea(shape_cells, shape)

LastRow(region) == CHOOSE r \in {cell[1] : cell \in region} : \A cell \in region : cell[1] <= r

FirstCell(set) ==
    CHOOSE a \in set : \A b \in set : a[1] < b[1] \/ (a[1] = b[1] /\ a[2] <= b[2])

\* The shapes that can be polygons[0].  shapes() documents no order; the
\* polygonizer scans the rows downwards and hands out a shape once the scan
\* has passed it, so the first shape is one that ends highest up, or the one
\* the scan meets first.
FirstShapes(mask) ==
    {p \in Polygons(mask) : \A q \in Polygons(mask) : LastRow(p) <= LastRow(q)}
        \cup {p \in Polygons(mask) : FirstCell(UNION Polygons(mask)) \in p}

Orders(S) ==
    {seq \in [1 .. Cardinality(S) -> S] : \A i, j \in DOMAIN seq : seq[i] = seq[j] => i = j}

\* lines 81-88
PolyShapes ==
    /\ poly_pc = "start"
    /\ polygons' \in {seq \in Orders(Polygons(raster_array)) :
                         seq /= <<>> => seq[1] \in FirstShapes(raster_array)}
    /\ poly_pc' = "shapes"
    /\ UNCHANGED <<raster_array, subbasin>>
    /\ UNCHANGED <<traceVars, snapVars, batchVars, riverVars, runVars, twiceVars>>

\* lines 91-118
PolyReturn ==
    /\ poly_pc = "shapes"
    /\ Len(polygons) > 0
    /\ subbasin' = [cells |-> ExteriorCells(polygons[1], raster_array.shape),
                    area |-> CalculatedArea(polygons[1], raster_array.shape)]
    /\ poly_pc' = "done"
    /\ UNCHANGED <<raster_array, polygons>>
    /\ UNCHANGED <<traceVars, snapVars, batchVars, riverVars, runVars, twiceVars>>

\* lines 120-121
PolyRaise ==
    /\ poly_pc = "shapes"
    /\ Len(polygons) = 0
    /\ poly_pc' = "ValueError"
    /\ UNCHANGED <<raster_array, polygons, subbasin>>
    /\ UNCHANGED <<traceVars, snapVars, batchVars, riverVars, runVars, twiceVars>>

\* the enumerated masks: every 3x3 mask
PolyShape == <<3, 3>>

PolyInit ==
    /\ raster_array \in {Grid(PolyShape, f) : f \in [Cells(PolyShape) -> {0, 1}]}
    /\ polygons = <<>>
    /\ subbasin = NoPolygon
    /\ poly_pc = "start"
    /\ TraceIdle
    /\ SnapIdle
    /\ BatchIdle
    /\ RiverIdle
    /\ RunIdle
    /\ TwiceIdle

PolyNext == PolyShapes \/ PolyReturn \/ PolyRaise

SpecPoly == PolyInit /\ [][PolyNext]_vars

-----------------------------------------------------------------------------
(* raster_to_polygon called again on an enlarged mask                      *)

\* the cells outside `set` that are a neighbour, by one of the eight offsets
\* of the trace, of a cell of `set`: the cells the trace can accept next
UpstreamNeighbours(set, shape) ==
    {x \in Cells(shape) \ set :
        \E m \in set : \E d \in DOMAIN offsets :
            x = <<m[1] + offsets[d][1], m[2] + offsets[d][2]>>}

\* the caller keeps the polygon of the mask, adds one upstream cell to the
\* mask and calls raster_to_polygon with the enlarged mask
PolyEnlarge ==
    /\ poly_pc = "done"
    /\ \E x \in UpstreamNeighbours({cell \in Cells(raster_array.shape) :
                                       raster_array.data[cell] = 1},
                                  raster_array.shape) :
           raster_array' = Mark(raster_array, {x})
    /\ first_mask' = raster_array
    /\ polygons' = <<>>
    /\ poly_pc' = "start"
    /\ UNCHANGED <<subbasin, first_grid, run_no>>
    /\ UNCHANGED <<traceVars, snapVars, batchVars, riverVars, runVars>>

EnlargeNext == PolyShapes \/ PolyReturn \/ PolyRaise \/ PolyEnlarge

SpecEnlarge == PolyInit /\ [][EnlargeNext]_vars

-----------------------------------------------------------------------------
(* clip_river_network (src/src/processing.py)                              *)

\* A river network is a table: `columns` are the attribute columns, each row
\* is a line feature with its id and the cells its line runs through.

\* line 133, gpd.clip: the features that meet the polygon, cut to it
Clip(rows, polygon_cells) ==
    LET inside == SelectSeq(rows, LAMBDA f : f.cells \cap polygon_cells /= {})
    IN  [k \in DOMAIN inside |-> [inside[k] EXCEPT !.cells = @ \cap polygon_cells]]

\* the comparison of line 138 made strict
StrahlerFilter_Strict(rows, order) == SelectSeq(rows, LAMBDA f : f.strahler > order)

\* lines 137-138: clipped_river_network[clipped_river_network["strahler"] >= min_strahler_order]
StrahlerFilter(rows, order) == SelectSeq(rows, LAMBDA f : f.strahler >= order)

StrahlerWarning == "The 'strahler' column is not found in river_network data. MIN_STRAHLER cannot be applied!"

\* line 133
ClipRiver ==
    /\ clip_pc = "start"
    /\ clipped_river_network' = Clip(river_vector.rows, subbasin.cells)
    /\ clip_pc' = "clipped"
    /\ UNCHANGED <<river_vector, min_strahler_order, clip_feedback, warnings_issued>>
    /\ UNCHANGED <<traceVars, snapVars, batchVars, polyVars, runVars, twiceVars>>

\* lines 135-138
ClipFilter ==
    /\ clip_pc = "clipped"
    /\ "strahler" \in river_vector.columns
    /\ clipped_river_network' = StrahlerFilter(clipped_river_network, min_strahler_order)
    /\ clip_pc' = "filtered"
    /\ UNCHANGED <<river_vector, min_strahler_order, clip_feedback, warnings_issued>>
    /\ UNCHANGED <<traceVars, snapVars, batchVars, polyVars, runVars, twiceVars>>

\* lines 139-141
ClipWarn ==
    /\ clip_pc = "clipped"
    /\ "strahler" \notin river_vector.columns
    /\ warnings_issued' = Append(warnings_issued, StrahlerWarning)
    /\ clip_pc' = "filtered"
    /\ UNCHANGED <<river_vector, min_strahler_order, clipped_river_network, clip_feedback>>
    /\ UNCHANGED <<traceVars, snapVars, batchVars, polyVars, runVars, twiceVars>>

\* the status left empty whatever was clipped
RiverStatus_Empty(rows) == ""

\* lines 143-145: feedback["river_status"]
RiverStatus(rows) ==
    IF Len(rows) = 0 THEN "No rivers clipped within the given basin." ELSE ""

\* lines 143-159: the feedback is built, the clipped network saved and returned
ClipReturn ==
    /\ clip_pc = "filtered"
    /\ clip_feedback' = RiverStatus(clipped_river_network)
    /\ clip_pc' = "done"
    /\ UNCHANGED <<river_vector, min_strahler_order, clipped_river_network, warnings_issued>>
    /\ UNCHANGED <<traceVars, snapVars, batchVars, polyVars, runVars, twiceVars>>

\* the enumerated networks: up to two features, each one of four lines on a
\* 2x2 grid, with or without the strahler column; every non-empty polygon
ClipShape == <<2, 2>>
RiverLines ==
    { {<<0, 0>>}, {<<0, 0>>, <<0, 1>>}, {<<1, 1>>}, {<<0, 1>>, <<1, 1>>} }
FeatureCounts == {0, 1, 2}

Networks ==
    UNION {
        {[columns |-> {"id", "strahler"},
          rows |-> [k \in 1 .. n |-> [id |-> k, cells |-> line[k], strahler |-> order[k]]]] :
             line \in [1 .. n -> RiverLines], order \in [1 .. n -> 1 .. MaxStrahler]}
        \cup
        {[columns |-> {"id"},
          rows |-> [k \in 1 .. n |-> [id |-> k, cells |-> line[k]]]] :
             line \in [1 .. n -> RiverLines]}
        : n \in FeatureCounts}

ClipInit ==
    /\ river_vector \in Networks
    /\ min_strahler_order \in 1 .. (MaxStrahler + 1)
    /\ \E cells \in (SUBSET Cells(ClipShape)) \ {{}} :
           subbasin = [cells |-> cells, area |-> CellArea * Cardinality(cells)]
    /\ clipped_river_network = <<>>
    /\ clip_feedback = NoFeedback
    /\ warnings_issued = <<>>
    /\ clip_pc = "start"
    /\ raster_array = NoGrid
    /\ polygons = <<>>
    /\ poly_pc = "idle"
    /\ TraceIdle
    /\ SnapIdle
    /\ BatchIdle
    /\ RunIdle
    /\ TwiceIdle

ClipNext == ClipRiver \/ ClipFilter \/ ClipWarn \/ ClipReturn

SpecClip == ClipInit /\ [][ClipNext]_vars

-----------------------------------------------------------------------------
(* process_watershed_points (src/src/processing.py)                        *)

\* the empty value of a text column
NaN == "NaN"

\* a float column holds <<v>> for the number v and <<>> for NaN
Float(v) == <<v>>
FloatNaN == <<>>

\* the columns insert_watershed_info creates
DerivedColumns == {"snap_long", "snap_lat", "CalculatedArea", "river_status"}

\* line 229: a row of the copy holds every column of the row; the derived
\* columns are empty until insert_watershed_info fills them
CopyRow(row) ==
    [f \in (DOMAIN row) \cup DerivedColumns |->
        IF f \in DOMAIN row THEN row[f]
        ELSE IF f = "river_status" THEN NaN ELSE FloatNaN]

\* lines 178-184: every row whose id equals row.id receives the four values
insert_watershed_info(copy, row, new_pour_point, area, feedback) ==
    [k \in DOMAIN copy |->
        IF copy[k].id = row.id
        THEN [copy[k] EXCEPT !.snap_long = Float(new_pour_point[1]),
                             !.snap_lat = Float(new_pour_point[2]),
                             !.CalculatedArea = Float(area),
                             !.river_status = feedback]
        ELSE copy[k]]

\* line 229 without .copy(): points_copy is the caller's table itself, every
\* store into it is a store into the input
CallerPoints_Aliased(table, copy) == copy

\* line 229: points.copy() is a table of its own, so the caller's table
\* after a store into points_copy (lines 178-184) is the table it was
CallerPoints(table, copy) == table

\* lines 222-233: the copy is made, the loop is entered
BatchStart ==
    /\ batch_pc = "start"
    /\ points_copy' = [k \in DOMAIN points |-> CopyRow(points[k])]
    /\ point_i' = 0
    /\ batch_pc' = "loop"
    /\ points' = CallerPoints(points, points_copy')
    /\ UNCHANGED <<traceVars, snapVars>>
    /\ UNCHANGED outerVars

\* lines 235-249: the next row, accum given: calculate_new_pour_point is called
BatchSnap ==
    /\ batch_pc = "loop"
    /\ point_i < Len(points)
    /\ accum /= NoGrid
    /\ coord' = <<points[point_i + 1].long, points[point_i + 1].lat>>
    /\ central_list' = NoCell
    /\ pour_point_rc' = NoCell
    /\ snapped_pour_point_xy' = NoCell
    /\ snap_pc' = "start"
    /\ batch_pc' = "snap"
    /\ UNCHANGED <<accum, n_neighbour, points, points_copy, point_i>>
    /\ UNCHANGED traceVars
    /\ UNCHANGED outerVars

\* lines 240-243 with 256: accum is None, the nominal coordinate is traced
BatchNoSnap ==
    /\ batch_pc = "loop"
    /\ point_i < Len(points)
    /\ accum = NoGrid
    /\ snapped_pour_point_xy' = <<points[point_i + 1].long, points[point_i + 1].lat>>
    /\ pour_point_coords' = Index(points[point_i + 1].long, points[point_i + 1].lat)
    /\ upstream_area' = NoGrid
    /\ stack' = <<>>
    /\ pushed' = <<>>
    /\ pc' = "start"
    /\ batch_pc' = "trace"
    /\ UNCHANGED <<accum, coord, n_neighbour, central_list, pour_point_rc, snap_pc>>
    /\ UNCHANGED <<drainage_direction, points, points_copy, point_i>>
    /\ UNCHANGED outerVars

\* lines 250-257: the snapped coordinate is converted to a cell and traced
BatchTrace ==
    /\ batch_pc = "snap"
    /\ snap_pc = "done"
    /\ direction_type = "grass"
    /\ pour_point_coords' = Index(snapped_pour_point_xy[1], snapped_pour_point_xy[2])
    /\ upstream_area' = NoGrid
    /\ stack' = <<>>
    /\ pushed' = <<>>
    /\ pc' = "start"
    /\ batch_pc' = "trace"
    /\ UNCHANGED <<drainage_direction, points, points_copy, point_i>>
    /\ UNCHANGED snapVars
    /\ UNCHANGED outerVars

\* lines 256-264: the mask is rasterized and handed to raster_to_polygon
BatchPolygonize ==
    /\ batch_pc = "trace"
    /\ pc = "done"
    /\ raster_array' = upstream_area
    /\ polygons' = <<>>
    /\ subbasin' = NoPolygon
    /\ poly_pc' = "start"
    /\ batch_pc' = "polygon"
    /\ UNCHANGED <<points, points_copy, point_i>>
    /\ UNCHANGED <<traceVars, snapVars, riverVars, runVars, twiceVars>>

\* lines 265-271: a river network is given, clip_river_network is called
BatchClip ==
    /\ batch_pc = "polygon"
    /\ poly_pc = "done"
    /\ river_vector /= NoRiver
    /\ clipped_river_network' = <<>>
    /\ clip_feedback' = NoFeedback
    /\ clip_pc' = "start"
    /\ batch_pc' = "clip"
    /\ UNCHANGED <<river_vector, min_strahler_order, warnings_issued>>
    /\ UNCHANGED <<points, points_copy, point_i>>
    /\ UNCHANGED <<traceVars, snapVars, polyVars, runVars, twiceVars>>

\* lines 272-278: the feedback of the clip, or "-" when river_vector is None,
\* is inserted with the snapped coordinate and the area
BatchInsert ==
    /\ IF river_vector = NoRiver
       THEN batch_pc = "polygon" /\ poly_pc = "done"
       ELSE batch_pc = "clip" /\ clip_pc = "done"
    /\ points_copy' = insert_watershed_info(points_copy, points[point_i + 1],
                          snapped_pour_point_xy, subbasin.area,
                          IF river_vector = NoRiver THEN "-" ELSE clip_feedback)
    /\ point_i' = point_i + 1
    /\ batch_pc' = "loop"
    /\ points' = CallerPoints(points, points_copy')
    /\ UNCHANGED <<traceVars, snapVars, outerVars>>

\* The loop body has no try/except.  An exception of a callee leaves
\* process_watershed_points: the IndexError of the snap (line 248), the
\* ValueError of raster_to_polygon on a mask without a set cell (line 261), a
\* crash of the compiled trace (line 256), and the UnboundLocalError of line
\* 256 when direction_type bound no trace function in lines 223-226.
\* points_copy is never returned.
BatchRaise ==
    /\ IF batch_pc = "snap"
       THEN \/ snap_pc = "IndexError"
            \/ snap_pc = "done" /\ direction_type \notin {"arcgis", "grass"}
       ELSE IF batch_pc = "trace" THEN pc = "crashed"
       ELSE batch_pc = "polygon" /\ poly_pc = "ValueError"
    /\ batch_pc' = "raised"
    /\ UNCHANGED <<points, points_copy, point_i>>
    /\ UNCHANGED <<traceVars, snapVars, outerVars>>

\* line 280
BatchReturn ==
    /\ batch_pc = "loop"
    /\ point_i = Len(points)
    /\ batch_pc' = "returned"
    /\ UNCHANGED <<points, points_copy, point_i>>
    /\ UNCHANGED <<traceVars, snapVars>>
    /\ UNCHANGED outerVars

\* the grids of one watershed: 3x3, every cell drains to (2,1), which drains
\* south off the grid; the accumulation counts the cells draining through
BatchShape == <<3, 3>>
BatchDirection ==
    Grid(BatchShape,
         (<<0, 0>> :> 6 @@ <<0, 1>> :> 6 @@ <<0, 2>> :> 6 @@
          <<1, 0>> :> 7 @@ <<1, 1>> :> 6 @@ <<1, 2>> :> 5 @@
          <<2, 0>> :> 8 @@ <<2, 1>> :> 6 @@ <<2, 2>> :> 4))
BatchAccum ==
    Grid(BatchShape,
         (<<0, 0>> :> 1 @@ <<0, 1>> :> 1 @@ <<0, 2>> :> 1 @@
          <<1, 0>> :> 2 @@ <<1, 1>> :> 2 @@ <<1, 2>> :> 2 @@
          <<2, 0>> :> 1 @@ <<2, 1>> :> 9 @@ <<2, 2>> :> 1))

\* outlet coordinates: the centre of every cell up to CoordMargin cells
\* outside the grid
BatchCoords ==
    {CellCentre(r, c) :
        r \in (0 - CoordMargin) .. (BatchShape[1] - 1 + CoordMargin),
        c \in (0 - CoordMargin) .. (BatchShape[2] - 1 + CoordMargin)}

BatchInit ==
    /\ \E n \in 1 .. MaxPoints :
          \E xy \in [1 .. n -> BatchCoords] :
              points = [k \in 1 .. n |-> [id |-> k, long |-> xy[k][1], lat |-> xy[k][2]]]
    /\ points_copy = <<>>
    /\ point_i = 0
    /\ batch_pc = "start"
    /\ drainage_direction = BatchDirection
    /\ pour_point_coords = NoCell
    /\ upstream_area = NoGrid
    /\ stack = <<>>
    /\ pushed = <<>>
    /\ pc = "idle"
    /\ accum \in {BatchAccum, NoGrid}
    /\ n_neighbour \in 0 .. MaxNeighbour
    /\ coord = NoCell
    /\ central_list = NoCell
    /\ pour_point_rc = NoCell
    /\ snapped_pour_point_xy = NoCell
    /\ snap_pc = "idle"
    /\ PolyIdle
    /\ RiverIdle
    /\ RunIdle
    /\ TwiceIdle

\* process_watershed_points called without a river network
BatchNext ==
    \/ BatchStart \/ BatchSnap \/ BatchNoSnap \/ BatchTrace
    \/ BatchPolygonize \/ BatchInsert \/ BatchRaise \/ BatchReturn
    \/ SnapIndex \/ SnapSearch \/ SnapReturn
    \/ TraceStart \/ TraceCrash \/ TracePop \/ TraceReturn
    \/ PolyShapes \/ PolyReturn \/ PolyRaise

SpecBatch == BatchInit /\ [][BatchNext]_vars

\* process_watershed_points called with a table of a single outlet
OutletInit == BatchInit /\ Len(points) = 1

SpecOutlet == OutletInit /\ [][BatchNext]_vars

-----------------------------------------------------------------------------
(* delineate_upstream (src/src/delineate_upstream.py)                      *)

\* check_config_file_validity without the test of DRAINAGE_DIRECTION_TYPE
ConfigValid_NoTypeCheck(c) ==
    /\ c.MODE \in {"single", "partial"}
    /\ c.paths_ok
    /\ c.VECTOR_EXTENSION \in {"kml", "geojson"}

\* file_manager.check_config_file_validity: the mode is single or partial
\* and its paths are files resp. folders (lines 55-84), the direction type is
\* arcgis or grass (86-88), the vector extension is kml or geojson (102-103)
ConfigValid(c) ==
    /\ c.MODE \in {"single", "partial"}
    /\ c.paths_ok
    /\ c.DRAINAGE_DIRECTION_TYPE \in {"arcgis", "grass"}
    /\ c.VECTOR_EXTENSION \in {"kml", "geojson"}

\* processing.read_outlets, line 41
col_headers == {"id", "name", "long", "lat", "area"}

\* the float a division gives, kept exact as the fraction <<num, den>>;
\* a division by zero gives an infinity, written as a fraction over 0
Fraction(num, den) == <<num, den>>
Inf == <<1, 0>>
NegInf == <<-1, 0>>

\* lines 66-68 and 111-113 for one row, in float arithmetic: a missing
\* operand gives NaN, a division by zero gives an infinity (NaN for 0/0)
ChangeRate(calculated, known) ==
    IF calculated = FloatNaN \/ known = FloatNaN THEN FloatNaN
    ELSE IF known[1] = 0
         THEN IF calculated[1] > 0 THEN Inf
              ELSE IF calculated[1] < 0 THEN NegInf ELSE FloatNaN
         ELSE Fraction(100 * (calculated[1] - known[1]), known[1])

WithChangeRate(table) ==
    [k \in DOMAIN table |->
        [f \in (DOMAIN table[k]) \cup {"change_rate"} |->
            IF f = "change_rate"
            THEN ChangeRate(table[k].CalculatedArea, table[k].area)
            ELSE table[k][f]]]

\* the rasters and the watershed polygons of the run: two watersheds whose
\* rasters share one extent; W1 covers the two western columns of the
\* extent, W2 the eastern column
EastDirection == Grid(BatchShape, [cell \in Cells(BatchShape) |-> 8])
EastAccum == Grid(BatchShape, [cell \in Cells(BatchShape) |-> cell[2] + 1])

DirectionFile(watershed) == IF watershed = "W2" THEN EastDirection ELSE BatchDirection
AccumFile(watershed) == IF watershed = "W2" THEN EastAccum ELSE BatchAccum

\* processing.join_watersheds2points, line 70: the watershed the point lies
\* within, NaN for a point within none (left join)
WatershedOf(x, y) ==
    LET cell == Index(x, y)
    IN  IF ~InBounds(cell[1], cell[2], BatchShape) THEN NaN
        ELSE IF cell[2] <= 1 THEN "W1" ELSE "W2"

\* the river network files: none configured, a network with the strahler
\* column, the same network without it
RiverRows ==
    << [id |-> 1, cells |-> {<<0, 1>>, <<1, 1>>}, strahler |-> 1],
       [id |-> 2, cells |-> {<<2, 0>>, <<2, 1>>}, strahler |-> 2],
       [id |-> 3, cells |-> {<<1, 2>>}, strahler |-> 1] >>

\* processing.load_river_network
load_river_network(path) ==
    IF path = "" THEN NoRiver
    ELSE IF path = "rivers"
         THEN [columns |-> {"id", "strahler"}, rows |-> RiverRows]
         ELSE [columns |-> {"id"},
               rows |-> [k \in DOMAIN RiverRows |->
                            [id |-> RiverRows[k].id, cells |-> RiverRows[k].cells]]]

\* Series.unique(): the values in order of first appearance
RECURSIVE Unique(_)
Unique(seq) ==
    IF seq = <<>> THEN <<>>
    ELSE LET front == Unique(SubSeq(seq, 1, Len(seq) - 1))
             last == seq[Len(seq)]
         IN  IF last \in Range(front) THEN front ELSE Append(front, last)

\* the enumerated outlet files: one or two outlets, each in cell (1,1), in
\* cell (2,2) or outside the extent, with a known area that is missing, zero
\* or 10.0 km2 (in tenths of a km2); and the files of one outlet with one column missing
OutletCounts == {1, 2}
RunCoords == {CellCentre(1, 1), CellCentre(2, 2), CellCentre(3, 3)}
KnownAreas == {FloatNaN, Float(0), Float(100)}

OutletTables ==
    UNION {
        {[k \in 1 .. n |-> [id |-> k, name |-> "outlet", long |-> xy[k][1],
                            lat |-> xy[k][2], area |-> known[k]]] :
            xy \in [1 .. n -> RunCoords], known \in [1 .. n -> KnownAreas]}
        : n \in OutletCounts}

\* the files of three outlets, each with the known area 10.0 km2: among them
\* the outlets of two watersheds interleaved (W1, W2, W1)
ThreeOutletTables ==
    {[k \in 1 .. 3 |-> [id |-> k, name |-> "outlet", long |-> xy[k][1],
                        lat |-> xy[k][2], area |-> Float(100)]] :
        xy \in [1 .. 3 -> RunCoords]}

DropColumn(table, column) ==
    [k \in DOMAIN table |-> [f \in (DOMAIN table[k]) \ {column} |-> table[k][f]]]

OutletFiles ==
    {[columns |-> col_headers, rows |-> table] : table \in OutletTables \cup ThreeOutletTables}
        \cup {[columns |-> col_headers \ {column}, rows |-> DropColumn(table, column)] :
                 table \in {t \in OutletTables : Len(t) = 1}, column \in col_headers}

\* lines 20-36: the configuration is checked and read, the results directory
\* made
RunCheckConfig ==
    /\ run_pc = "start"
    /\ run_pc' = IF ConfigValid(config) THEN "checked" ELSE "raised"
    /\ UNCHANGED <<config, outlet_file, direction_type, outlets, points_labelled,
                   unique_watershed_ids, watershed_i, points_new, report>>
    /\ UNCHANGED <<traceVars, snapVars, batchVars, polyVars, riverVars, twiceVars>>

\* line 39, read_outlets: a missing column raises ValueError
\* (processing.py lines 41-47)
RunReadOutlets ==
    /\ run_pc = "checked"
    /\ IF col_headers \subseteq outlet_file.columns
       THEN outlets' = outlet_file.rows /\ run_pc' = "outlets"
       ELSE outlets' = outlets /\ run_pc' = "raised"
    /\ UNCHANGED <<config, outlet_file, direction_type, points_labelled,
                   unique_watershed_ids, watershed_i, points_new, report>>
    /\ UNCHANGED <<traceVars, snapVars, batchVars, polyVars, riverVars, twiceVars>>

\* the call of process_watershed_points (lines 52-63 and 94-105)
CallProcess(table, watershed, rivers) ==
    /\ points' = table
    /\ points_copy' = <<>>
    /\ point_i' = 0
    /\ batch_pc' = "start"
    /\ accum' = AccumFile(watershed)
    /\ drainage_direction' = DirectionFile(watershed)
    /\ river_vector' = rivers
    /\ direction_type' = config.DRAINAGE_DIRECTION_TYPE
    /\ n_neighbour' = config.PIXEL2SEARCH
    /\ min_strahler_order' = config.MIN_STRAHLER
    /\ UNCHANGED <<coord, central_list, pour_point_rc, snapped_pour_point_xy, snap_pc>>
    /\ UNCHANGED <<pour_point_coords, upstream_area, stack, pc, pushed>>
    /\ UNCHANGED <<clipped_river_network, clip_feedback, warnings_issued, clip_pc>>
    /\ UNCHANGED <<polyVars, twiceVars>>

\* lines 41-63: single mode, the rasters and the river network are read and
\* process_watershed_points is called with all outlets
RunSingle ==
    /\ run_pc = "outlets"
    /\ config.MODE = "single"
    /\ CallProcess(outlets, "single", load_river_network(config.RIVERS))
    /\ run_pc' = "processing"
    /\ UNCHANGED <<config, outlet_file, outlets, points_labelled, unique_watershed_ids,
                   watershed_i, points_new, report>>

\* lines 70-77: partial mode, the outlets are joined to the watersheds
RunJoin ==
    /\ run_pc = "outlets"
    /\ config.MODE = "partial"
    /\ LET joined == [k \in DOMAIN outlets |->
                         [f \in (DOMAIN outlets[k]) \cup {"Watershed_ID"} |->
                             IF f = "Watershed_ID"
                             THEN WatershedOf(outlets[k].long, outlets[k].lat)
                             ELSE outlets[k][f]]]
       IN  /\ points_labelled' = joined
           /\ unique_watershed_ids' = Unique([k \in DOMAIN joined |-> joined[k].Watershed_ID])
    /\ points_new' = <<>>
    /\ watershed_i' = 0
    /\ run_pc' = "watersheds"
    /\ UNCHANGED <<config, outlet_file, direction_type, outlets, report>>
    /\ UNCHANGED <<traceVars, snapVars, batchVars, polyVars, riverVars, twiceVars>>

\* lines 79-105: the next watershed, its rasters and river network are read
\* and process_watershed_points is called with the outlets joined to it.
\* For the id NaN of the outlets within no watershed `watershed + '.tif'`
\* raises TypeError; with RIVERS empty the path of line 92 names no file.
RunWatershed ==
    /\ run_pc = "watersheds"
    /\ watershed_i < Len(unique_watershed_ids)
    /\ LET watershed == unique_watershed_ids[watershed_i + 1]
       IN  IF watershed = NaN \/ config.RIVERS = ""
           THEN /\ run_pc' = "raised"
                /\ UNCHANGED direction_type
                /\ UNCHANGED <<traceVars, snapVars, batchVars, polyVars, riverVars, twiceVars>>
           ELSE /\ CallProcess(SelectSeq(points_labelled,
                                         LAMBDA row : row.Watershed_ID = watershed),
                               watershed, load_river_network(config.RIVERS))
                /\ run_pc' = "processing"
    /\ UNCHANGED <<config, outlet_file, outlets, points_labelled, unique_watershed_ids,
                   watershed_i, points_new, report>>

\* process_watershed_points has returned: points_new is its result (line 52)
\* or is extended with it (lines 107-108)
RunCollect ==
    /\ run_pc = "processing"
    /\ batch_pc = "returned"
    /\ IF config.MODE = "single"
       THEN /\ points_new' = points_copy
            /\ watershed_i' = watershed_i
            /\ run_pc' = "rate"
       ELSE /\ points_new' = points_new \o points_copy
            /\ watershed_i' = watershed_i + 1
            /\ run_pc' = "watersheds"
    /\ UNCHANGED <<config, outlet_file, direction_type, outlets, points_labelled,
                   unique_watershed_ids, report>>
    /\ UNCHANGED <<traceVars, snapVars, batchVars, polyVars, riverVars, twiceVars>>

\* an exception of process_watershed_points leaves delineate_upstream, which
\* catches nothing
RunRaise ==
    /\ run_pc = "processing"
    /\ batch_pc = "raised"
    /\ run_pc' = "raised"
    /\ UNCHANGED <<config, outlet_file, direction_type, outlets, points_labelled,
                   unique_watershed_ids, watershed_i, points_new, report>>
    /\ UNCHANGED <<traceVars, snapVars, batchVars, polyVars, riverVars, twiceVars>>

\* line 79: the loop over the watersheds is finished
RunLoopEnd ==
    /\ run_pc = "watersheds"
    /\ watershed_i = Len(unique_watershed_ids)
    /\ run_pc' = "rate"
    /\ UNCHANGED <<config, outlet_file, direction_type, outlets, points_labelled,
                   unique_watershed_ids, watershed_i, points_new, report>>
    /\ UNCHANGED <<traceVars, snapVars, batchVars, polyVars, riverVars, twiceVars>>

\* lines 65-68 and 110-113
RunChangeRate ==
    /\ run_pc = "rate"
    /\ points_new' = WithChangeRate(points_new)
    /\ run_pc' = "rated"
    /\ UNCHANGED <<config, outlet_file, direction_type, outlets, points_labelled,
                   unique_watershed_ids, watershed_i, report>>
    /\ UNCHANGED <<traceVars, snapVars, batchVars, polyVars, riverVars, twiceVars>>

\* lines 115-118
RunReport ==
    /\ run_pc = "rated"
    /\ report' = points_new
    /\ run_pc' = "reported"
    /\ UNCHANGED <<config, outlet_file, direction_type, outlets, points_labelled,
                   unique_watershed_ids, watershed_i, points_new>>
    /\ UNCHANGED <<traceVars, snapVars, batchVars, polyVars, riverVars, twiceVars>>

\* the enumerated configurations; "batch", "d8" and "shp" are values the
\* check rejects.  The trace of the arcgis encoding is no part of the
\* sources, the valid runs are those of the grass encoding.
Configs ==
    [MODE : {"single", "partial", "batch"},
     paths_ok : BOOLEAN,
     DRAINAGE_DIRECTION_TYPE : {"grass", "d8"},
     VECTOR_EXTENSION : {"geojson", "shp"},
     RIVERS : {"", "rivers", "rivers_plain"},
     PIXEL2SEARCH : 0 .. MaxNeighbour,
     MIN_STRAHLER : 1 .. MaxStrahler]

RunInit ==
    /\ config \in Configs
    /\ outlet_file \in OutletFiles
    /\ direction_type = "grass"
    /\ outlets = <<>>
    /\ points_labelled = <<>>
    /\ unique_watershed_ids = <<>>
    /\ watershed_i = 0
    /\ points_new = <<>>
    /\ report = <<>>
    /\ run_pc = "start"
    /\ TraceIdle
    /\ SnapIdle
    /\ BatchIdle
    /\ PolyIdle
    /\ RiverIdle
    /\ TwiceIdle

RunNext ==
    \/ RunCheckConfig \/ RunReadOutlets \/ RunSingle \/ RunJoin \/ RunWatershed
    \/ RunCollect \/ RunRaise \/ RunLoopEnd \/ RunChangeRate \/ RunReport
    \/ BatchStart \/ BatchSnap \/ BatchTrace \/ BatchPolygonize \/ BatchClip
    \/ BatchInsert \/ BatchRaise \/ BatchReturn
    \/ SnapIndex \/ SnapSearch \/ SnapReturn
    \/ TraceStart \/ TracePop \/ TraceReturn
    \/ PolyShapes \/ PolyReturn
    \/ ClipRiver \/ ClipFilter \/ ClipWarn \/ ClipReturn

SpecRun == RunInit /\ [][RunNext]_vars

-----------------------------------------------------------------------------
(* The catchment the specification defines, under the grass encoding      *)
(* (1=NE, 2=N, 3=NW, 4=W, 5=SW, 6=S, 7=SE, 8=E; rows grow southwards)      *)

GrassLegal(raw) == raw \in 1 .. 8

GrassDelta == << <<-1, 1>>, <<-1, 0>>, <<-1, -1>>, <<0, -1>>,
                 <<1, -1>>, <<1, 0>>, <<1, 1>>, <<0, 1>> >>

\* cell a drains into cell b: a holds a legal code and the code points at b
FlowsInto(g, a, b) ==
    /\ GrassLegal(g.data[a])
    /\ b = <<a[1] + GrassDelta[g.data[a]][1], a[2] + GrassDelta[g.data[a]][2]>>

RECURSIVE UpstreamClosure(_, _)
UpstreamClosure(g, S) ==
    LET S2 == S \cup {a \in Cells(g.shape) : \E b \in S : FlowsInto(g, a, b)}
    IN  IF S2 = S THEN S ELSE UpstreamClosure(g, S2)

\* every cell with a directed path to the pour cell, plus the pour cell
Catchment(g, pour) == UpstreamClosure(g, {pour})

Marked(mask) == {cell \in Cells(mask.shape) : mask.data[cell] = 1}

PourInBounds ==
    InBounds(pour_point_coords[1], pour_point_coords[2], drainage_direction.shape)

Returned == pc = "done"

IsScenarioA == drainage_direction = ScenarioGrid /\ pour_point_coords = ScenarioPour

-----------------------------------------------------------------------------
(* Claims about the upstream trace                                         *)

\* C1: for every direction grid and in-bounds pour cell the returned mask
\* marks exactly the cells with a directed D8 path to the pour cell, plus the
\* pour cell.
C1_MaskIsCatchment ==
    (Returned /\ PourInBounds) =>
        Marked(upstream_area) = Catchment(drainage_direction, pour_point_coords)

\* C2: no cell is pushed onto the work list more than once (a marked cell is
\* never pushed again), on every grid, cyclic ones included.
C2_PushedAtMostOnce ==
    PourInBounds =>
        \A i, j \in DOMAIN pushed : pushed[i] = pushed[j] => i = j

\* C3: a cell holding a raw value outside 1..8 is never added to the mask,
\* unless it is the pour cell.
C3_IllegalNeverMarked ==
    (pc \in {"loop", "done"} /\ PourInBounds) =>
        \A cell \in Marked(upstream_area) :
            cell /= pour_point_coords => GrassLegal(drainage_direction.data[cell])

\* C4: for an in-bounds pour cell the returned mask has the shape of the
\* direction grid and has the pour cell set.
C4_ShapeAndPourSet ==
    (Returned /\ PourInBounds) =>
        /\ upstream_area.shape = drainage_direction.shape
        /\ DOMAIN upstream_area.data = DOMAIN drainage_direction.data
        /\ upstream_area.data[pour_point_coords] = 1

\* C4 witness: a trace from an in-bounds pour cell has returned a mask with
\* the pour cell and at least one other cell
C4_Witness ==
    /\ Returned /\ PourInBounds
    /\ Cardinality(Marked(upstream_area)) >= 2
    /\ pour_point_coords \in Marked(upstream_area)

\* C5 as stated: Scenario A (5x5, all cells point due south, pour cell (4,2))
\* returns the entire grid, 25 cells.
C5_ScenarioWholeGrid ==
    (Returned /\ IsScenarioA) => Marked(upstream_area) = Cells(ScenarioShape)

\* C5 amended: Scenario A returns exactly the five cells of column 2, the
\* cells that drain south into (4,2).
C5_ScenarioColumn ==
    (Returned /\ IsScenarioA) =>
        Marked(upstream_area) = {<<r, 2>> : r \in 0 .. 4}

C5_Witness ==
    Returned /\ IsScenarioA /\ Cardinality(Marked(upstream_area)) = 5

\* C6: a pour cell outside the grid makes the trace fail; it never returns a
\* mask.
C6_OutOfBoundsNeverReturns == Returned => PourInBounds

-----------------------------------------------------------------------------
(* Claims about the grass decoding                                         *)

\* the eight compass steps: every <<dr, dc>> of the 3x3 neighbourhood but
\* the centre
CompassSteps == (({-1, 0, 1}) \X ({-1, 0, 1})) \ {<<0, 0>>}

\* re-encoding: the grass code of a compass step (1=NE, 2=N, 3=NW, 4=W,
\* 5=SW, 6=S, 7=SE, 8=E)
GrassEncode(step) == CHOOSE v \in 1 .. 8 : GrassDelta[v] = step

\* the cells one iteration of the loop has appended
NewlyPushed == {pushed'[k] : k \in (Len(pushed) + 1) .. Len(pushed')}

\* C13: the grass decoding of the raw values 1..8 is a bijection onto the
\* compass directions, 1=NE, 2=N, 3=NW, 4=W, 5=SW, 6=S, 7=SE, 8=E: whenever
\* the trace pops a cell, a neighbour holding a legal raw value is accepted
\* exactly when the step that value names leads from the neighbour to the
\* popped cell; distinct values name distinct steps, every step is named, and
\* re-encoding the step an accepted neighbour was decoded to gives back its
\* raw value.
C13_GrassDecodingBijective ==
    [][(pc = "loop" /\ pc' = "loop") =>
        LET top == stack[Len(stack)]
            g == drainage_direction
        IN  /\ {GrassDelta[v] : v \in 1 .. 8} = CompassSteps
            /\ \A v, w \in 1 .. 8 : GrassDelta[v] = GrassDelta[w] => v = w
            /\ \A a \in Cells(g.shape) :
                   GrassLegal(g.data[a]) =>
                       /\ a \in NewlyPushed <=> FlowsInto(g, a, top)
                       /\ a \in NewlyPushed =>
                              GrassEncode(<<top[1] - a[1], top[2] - a[2]>>) = g.data[a]]_vars

\* C13 witness: a returned trace from a pour cell inside the grid that has
\* accepted three neighbours holding three different legal raw values
C13_Witness ==
    /\ Returned
    /\ PourInBounds
    /\ Len(pushed) = 4
    /\ \A k \in 2 .. 4 : GrassLegal(drainage_direction.data[pushed[k]])
    /\ Cardinality({drainage_direction.data[pushed[k]] : k \in 2 .. 4}) = 3

-----------------------------------------------------------------------------
(* Claims about the shape of the traced mask                               *)

PointsAt(g, n, b) ==
    /\ <<b[1] - n[1], b[2] - n[2]>> \in CompassSteps
    /\ ((g.data[n] - 1) % 8) + 1 = GrassEncode(<<b[1] - n[1], b[2] - n[2]>>)

\* C25: while the trace runs no position outside the grid is read or marked
\* and nothing wraps around: what one pass over the neighbours of a popped
\* cell accepts are the cells inside the grid one step away from it, in row
\* and in column, whose value points at it, whatever the cells across the
\* opposite edge hold; the mask changes at those cells alone; border cells
\* included.
C25_NoWraparound ==
    [][(pc = "loop" /\ pc' = "loop") =>
        LET top == stack[Len(stack)]
            g == drainage_direction
        IN  /\ NewlyPushed \subseteq Cells(g.shape)
            /\ NewlyPushed = {n \in Cells(g.shape) : PointsAt(g, n, top)}
            /\ Marked(upstream_area') = Marked(upstream_area) \cup NewlyPushed
            /\ DOMAIN upstream_area'.data = Cells(g.shape)]_vars

\* C25 witness: a trace from a pour cell in the first column of a 3x3 grid
\* has returned; the cell of the last column in the row of the pour cell
\* drains east, across the edge, and the cell of the last row in the column
\* of a set cell of the first row drains south, and neither is in the mask
C25_Witness ==
    /\ Returned /\ PourInBounds
    /\ drainage_direction.shape = WideShape
    /\ pour_point_coords[2] = 0
    /\ drainage_direction.data[<<pour_point_coords[1], 2>>] = 8
    /\ <<pour_point_coords[1], 2>> \notin Marked(upstream_area)
    /\ \E c \in 0 .. 2 :
           /\ <<0, c>> \in Marked(upstream_area)
           /\ drainage_direction.data[<<2, c>>] = 6
           /\ <<2, c>> \notin Marked(upstream_area)
    /\ Cardinality(Marked(upstream_area)) >= 2

\* C27: the recursive trace calculate_upstream_v1 and the stack-based trace
\* calculate_upstream_v2 are equivalent: for every direction grid and pour
\* cell inside the grid both end and mark exactly the same cells.  v1 ends
\* after it has visited each cell of its mask once; v2 accepts by the same
\* test, so it ends exactly when it pushes each of these cells once: it
\* never holds more pushes than the mask of v1 has cells, and the mask it
\* returns is the mask of v1.
C27_TracesEquivalent ==
    (PourInBounds /\ pc \in {"loop", "done"}) =>
        LET v1 == Marked(calculate_upstream_v1(drainage_direction, pour_point_coords))
        IN  /\ Len(pushed) <= Cardinality(v1)
            /\ Returned => Marked(upstream_area) = v1

-----------------------------------------------------------------------------
(* Claims about the pour-point snap                                        *)

\* the square window of radius n centred on the nominal cell
Window(central, n) ==
    {<<r, c>> : r \in (central[1] - n) .. (central[1] + n),
                c \in (central[2] - n) .. (central[2] + n)}

InGridWindow == {w \in Window(central_list, n_neighbour) : InBounds(w[1], w[2], accum.shape)}

WindowInsideGrid == InGridWindow = Window(central_list, n_neighbour)

NominalInGrid ==
    /\ central_list /= NoCell
    /\ InBounds(central_list[1], central_list[2], accum.shape)

SnapReturned == snap_pc = "done"

SnapEnded == snap_pc \in {"done", "IndexError"}

\* the selected cell is a cell of the grid inside the window and no in-grid
\* cell of the window holds more
SelectedIsInGridMax ==
    /\ pour_point_rc \in InGridWindow
    /\ \A w \in InGridWindow : accum.data[w] <= accum.data[pour_point_rc]

\* C8: for a nominal coordinate inside the grid the snap returns a cell inside
\* the window whose accumulation value is at least that of every in-grid cell
\* of the window.
C8_SelectsWindowMaximum == (SnapReturned /\ NominalInGrid) => SelectedIsInGridMax

\* C9: when the window of an in-grid nominal cell extends past the grid, the
\* snap succeeds and the winner is an in-grid cell of the window: cells
\* outside the grid are excluded, none is read from the opposite edge.
C9_EdgeWindowExcludesOutside ==
    (SnapEnded /\ NominalInGrid /\ ~WindowInsideGrid) =>
        (SnapReturned /\ SelectedIsInGridMax)

\* the window positions that hold the maximum of the values the search read
MaxPositions ==
    {w \in Window(central_list, n_neighbour) :
        \A v \in Window(central_list, n_neighbour) : At(accum, v) <= At(accum, w)}

\* C10 as stated: among several maxima the snap selects the first in
\* row-major order of the window (top row first, left to right in a row).
C10_TieFirstRowMajor ==
    (SnapReturned /\ WindowInsideGrid) =>
        /\ pour_point_rc \in MaxPositions
        /\ \A w \in MaxPositions :
               \/ pour_point_rc[1] < w[1]
               \/ (pour_point_rc[1] = w[1] /\ pour_point_rc[2] <= w[2])

\* C10 amended: among several maxima the snap selects the first in
\* column-major order of the window (leftmost column first, top to bottom
\* within a column).
C10_TieFirstColumnMajor ==
    SnapReturned =>
        /\ pour_point_rc \in MaxPositions
        /\ \A w \in MaxPositions :
               \/ pour_point_rc[2] < w[2]
               \/ (pour_point_rc[2] = w[2] /\ pour_point_rc[1] <= w[1])

\* C10 witness: a returned snap whose window holds the maximum in two cells
\* that row-major and column-major order rank differently
C10_Witness ==
    /\ SnapReturned
    /\ WindowInsideGrid
    /\ \E w \in MaxPositions : w[1] < pour_point_rc[1] /\ w[2] > pour_point_rc[2]

\* the window holds no cell of the grid
WindowOutsideGrid == central_list /= NoCell /\ InGridWindow = {}

\* C11: when the search window lies entirely outside the accumulation grid,
\* on any side (above and left of it included, where the indices are
\* negative), the snap fails with an out-of-bounds error and returns no
\* coordinate.
C11_WindowOutsideFails ==
    (SnapEnded /\ WindowOutsideGrid) =>
        (snap_pc = "IndexError" /\ snapped_pour_point_xy = NoCell)

\* the cells whose extent holds the coordinate: a cell spans PixelSizeX to
\* the right of its left edge and |PixelSizeY| below its top edge, the left
\* and the top edge belonging to it
ContainingCells(xy, shape) ==
    {cell \in Cells(shape) :
        /\ BoundsLeft + PixelSizeX * cell[2] <= xy[1]
        /\ xy[1] < BoundsLeft + PixelSizeX * (cell[2] + 1)
        /\ BoundsTop + PixelSizeY * cell[1] >= xy[2]
        /\ xy[2] > BoundsTop + PixelSizeY * (cell[1] + 1)}

\* the middle of the extent of a cell
MidPoint(cell) ==
    <<BoundsLeft + PixelSizeX * cell[2] + 1, BoundsTop + PixelSizeY * cell[1] - 1>>

\* C12: with search radius 0 the snap searches nothing: for every nominal
\* coordinate inside the grid it ends by returning the centre of the cell
\* that contains the coordinate, whatever the accumulation values are.
C12_RadiusZeroReturnsNominalCentre ==
    (SnapEnded /\ n_neighbour = 0 /\ ContainingCells(coord, accum.shape) /= {}) =>
        /\ SnapReturned
        /\ \A cell \in ContainingCells(coord, accum.shape) :
               snapped_pour_point_xy = MidPoint(cell)

\* C12 witness: a radius-0 snap has returned for a coordinate on a cell's
\* corner while a neighbouring cell holds more accumulation than that cell
C12_Witness ==
    /\ SnapReturned
    /\ n_neighbour = 0
    /\ ContainingCells(coord, accum.shape) /= {}
    /\ snapped_pour_point_xy /= coord
    /\ \E w \in Cells(accum.shape) :
           /\ Adjacent8(w, central_list)
           /\ accum.data[w] > accum.data[central_list]

-----------------------------------------------------------------------------
(* Claims about process_watershed_points                                   *)

BatchEnded == batch_pc \in {"returned", "raised"}

\* the row of point k carries an outcome: its derived values or a failure
\* status
RowHasOutcome(k) ==
    /\ k \in DOMAIN points_copy
    /\ points_copy[k].river_status /= NaN

\* C7: a failure on one point does not abort the batch: when the call (here
\* with an accumulation grid, snap then trace) ends it has returned, and every
\* point of the batch, the failing one included, has its outcome in its
\* result row.
C7_FailureDoesNotAbort ==
    (BatchEnded /\ Len(points) >= 2 /\ accum /= NoGrid) =>
        /\ batch_pc = "returned"
        /\ \A k \in DOMAIN points : RowHasOutcome(k)

\* process_watershed_points is running
BatchRunning == batch_pc \in {"start", "loop", "snap", "trace", "polygon", "clip"}

\* C22: process_watershed_points never modifies the input outlet table: no
\* step of the call changes the caller's points; its records hold id, name,
\* long, lat and area as they were read and none of the derived fields
\* snap_long, snap_lat, CalculatedArea, river_status, which exist in the
\* returned copy alone, beside the unchanged input fields.
C22_InputTableUntouched ==
    /\ [][BatchRunning => points' = points]_vars
    /\ [](batch_pc /= "idle" =>
            /\ \A k \in DOMAIN points : DOMAIN points[k] \cap DerivedColumns = {}
            /\ config.MODE = "single" => points = outlet_file.rows
            /\ batch_pc = "returned" =>
                   /\ DOMAIN points_copy = DOMAIN points
                   /\ \A k \in DOMAIN points :
                          /\ DerivedColumns \subseteq DOMAIN points_copy[k]
                          /\ \A f \in DOMAIN points[k] : points_copy[k][f] = points[k][f])

\* C22 witness: a call with two points has returned, both rows of the copy
\* carry their derived values, and the input is the table that was read
C22_Witness ==
    /\ batch_pc = "returned"
    /\ Len(points) = 2
    /\ points = outlet_file.rows
    /\ \A k \in DOMAIN points_copy :
           /\ points_copy[k].CalculatedArea /= FloatNaN
           /\ points_copy[k].snap_long /= FloatNaN
           /\ points_copy[k].river_status /= NaN

\* the cell that won the snap is a cell of the grid
WinnerInGrid ==
    /\ accum /= NoGrid
    /\ pour_point_rc /= NoCell
    /\ InBounds(pour_point_rc[1], pour_point_rc[2], accum.shape)

\* C26: the coordinate the snap returns is the centre of the winning cell,
\* and the grid transform converts it back to exactly that cell: for every
\* winning cell inside the grid, the cell process_watershed_points hands to
\* the trace is the cell that won the snap.
C26_TracedCellIsWinner ==
    /\ (snap_pc = "done" /\ WinnerInGrid) =>
           /\ snapped_pour_point_xy = MidPoint(pour_point_rc)
           /\ Index(snapped_pour_point_xy[1], snapped_pour_point_xy[2]) = pour_point_rc
    /\ (batch_pc = "trace" /\ WinnerInGrid) => pour_point_coords = pour_point_rc

\* C26 witness: the snap has moved a point to a neighbour cell of its nominal
\* cell, inside the grid, and the trace from that cell has returned
C26_Witness ==
    /\ batch_pc = "trace"
    /\ pc = "done"
    /\ WinnerInGrid
    /\ pour_point_rc /= central_list
    /\ pour_point_coords = pour_point_rc
    /\ upstream_area.data[pour_point_rc] = 1

-----------------------------------------------------------------------------
(* Claims about raster_to_polygon                                          *)

PolyEnded == poly_pc \in {"done", "ValueError"}

\* the 8-connected regions of set cells of the mask
Regions(mask) == {Grow8({cell}, Marked(mask)) : cell \in Marked(mask)}

\* C15: when the mask has more than one disjoint 8-connected region, the
\* polygon returned is that of the region with the largest cell count.
C15_LargestRegionReturned ==
    (poly_pc = "done" /\ Cardinality(Regions(raster_array)) > 1) =>
        \E region \in Regions(raster_array) :
            /\ \A other \in Regions(raster_array) :
                   Cardinality(other) <= Cardinality(region)
            /\ region \subseteq subbasin.cells
            /\ \A other \in Regions(raster_array) \ {region} :
                   other \cap subbasin.cells = {}

\* C16: a mask with no set cell makes raster_to_polygon fail with a
\* ValueError; no polygon and no area are returned.
C16_EmptyMaskRaises ==
    (PolyEnded /\ Marked(raster_array) = {}) =>
        (poly_pc = "ValueError" /\ subbasin = NoPolygon)

\* C16 witness: raster_to_polygon has ended on a mask of zeros
C16_Witness ==
    /\ poly_pc = "ValueError"
    /\ raster_array.shape = PolyShape
    /\ \A cell \in Cells(raster_array.shape) : raster_array.data[cell] = 0

\* the mask is a catchment mask: its set cells are one 8-connected region
IsCatchmentMask(mask) == mask /= NoGrid /\ Cardinality(Regions(mask)) = 1

\* C23: area monotonicity: when a mask is obtained from a catchment mask by
\* adding one more upstream cell (a neighbour cell that drains into a cell of
\* the mask), the polygon returned for the enlarged mask covers at least as
\* many cells, and has at least the area, of the polygon returned for the
\* mask before.
C23_AreaMonotone ==
    [][(poly_pc = "shapes" /\ poly_pc' = "done" /\ IsCatchmentMask(first_mask)) =>
          /\ subbasin /= NoPolygon
          /\ Cardinality(subbasin'.cells) >= Cardinality(subbasin.cells)
          /\ subbasin'.area >= subbasin.area]_vars

\* C23 witness: the polygon of an enlarged catchment mask has been returned
\* and covers two cells more than the polygon of the mask before: the added
\* cell and a free cell that the enlarged mask encloses
C23_Witness ==
    /\ poly_pc = "done"
    /\ IsCatchmentMask(first_mask)
    /\ Cardinality(Marked(raster_array)) = Cardinality(Marked(first_mask)) + 1
    /\ Cardinality(subbasin.cells)
           = Cardinality(ExteriorCells(Marked(first_mask), first_mask.shape)) + 2

-----------------------------------------------------------------------------
(* Claims about clip_river_network                                         *)

HasStrahler == river_vector /= NoRiver /\ "strahler" \in river_vector.columns

\* the features of the network with a part inside the polygon
InPolygon == {k \in DOMAIN river_vector.rows : river_vector.rows[k].cells \cap subbasin.cells /= {}}

ReturnedIds == {clipped_river_network[k].id : k \in DOMAIN clipped_river_network}

\* C18: when the network carries the strahler attribute, the clipped network
\* returned is exactly the line features inside the catchment polygon whose
\* order is >= min_strahler_order: none below the minimum is kept, none at or
\* above it inside the polygon is dropped.
C18_ClipKeepsExactlyMinOrder ==
    (clip_pc = "done" /\ HasStrahler) =>
        /\ ReturnedIds = {river_vector.rows[k].id :
                             k \in {j \in InPolygon :
                                       river_vector.rows[j].strahler >= min_strahler_order}}
        /\ Cardinality(ReturnedIds) = Len(clipped_river_network)
        /\ \A k \in DOMAIN clipped_river_network :
               /\ clipped_river_network[k].strahler >= min_strahler_order
               /\ clipped_river_network[k].cells \subseteq subbasin.cells

\* C18 witness: a clip has returned that kept a feature whose order equals
\* the minimum and dropped a feature inside the polygon for its lower order
C18_Witness ==
    /\ clip_pc = "done"
    /\ HasStrahler
    /\ \E k \in DOMAIN clipped_river_network :
           clipped_river_network[k].strahler = min_strahler_order
    /\ \E j \in InPolygon :
           /\ river_vector.rows[j].strahler < min_strahler_order
           /\ river_vector.rows[j].id \notin ReturnedIds

-----------------------------------------------------------------------------
(* Claims about delineate_upstream                                         *)

\* no outlet point has been snapped, traced or recorded
NothingProcessed ==
    /\ batch_pc = "idle"
    /\ snap_pc = "idle"
    /\ pc = "idle"
    /\ poly_pc = "idle"
    /\ clip_pc = "idle"
    /\ points_copy = <<>>
    /\ points_new = <<>>
    /\ report = <<>>

\* a configuration-level failure: the direction encoding is neither arcgis
\* nor grass, the MODE is invalid, or the outlet table lacks a required column
ConfigFailure ==
    \/ config.DRAINAGE_DIRECTION_TYPE \notin {"arcgis", "grass"}
    \/ config.MODE \notin {"single", "partial"}
    \/ \E column \in {"id", "name", "long", "lat", "area"} : column \notin outlet_file.columns

\* C14: a configuration-level failure aborts delineate_upstream before any
\* outlet point is snapped, traced or recorded: the run never gets past the
\* reading of the outlets, and it ends raised.
C14_ConfigFailureAbortsFirst ==
    ConfigFailure =>
        /\ NothingProcessed
        /\ run_pc \in {"start", "checked", "raised"}

\* C14 witness: a run with a valid configuration has been aborted by an
\* outlet table without the area column, nothing having been processed
C14_Witness ==
    /\ run_pc = "raised"
    /\ config.MODE = "single"
    /\ config.DRAINAGE_DIRECTION_TYPE = "grass"
    /\ "area" \notin outlet_file.columns
    /\ outlet_file.rows /= <<>>
    /\ NothingProcessed

\* the fraction q is the finite number num / den
IsQuotient(q, num, den) == Len(q) = 2 /\ q[2] /= 0 /\ q[1] * den = num * q[2]

\* C17: the change rate reported for a point is
\* 100 * (computed area - known area) / known area when the known area is
\* present and not zero (10.0 known and 12.5 computed give 25.0), and it is
\* undefined (no number, no infinity) when the known area is missing or zero.
C17_ChangeRate ==
    run_pc \in {"rated", "reported"} =>
        \A k \in DOMAIN points_new :
            LET known == points_new[k].area
                computed == points_new[k].CalculatedArea
                rate == points_new[k].change_rate
            IN  IF known /= FloatNaN /\ known /= Float(0)
                THEN /\ IsQuotient(rate, 100 * (computed[1] - known[1]), known[1])
                     /\ (known = Float(100) /\ computed = Float(125)) =>
                            IsQuotient(rate, 25, 1)
                ELSE rate = FloatNaN

\* the ids of a table in row order
Ids(table) == [k \in DOMAIN table |-> table[k].id]

Ascending(seq) == \A i, j \in DOMAIN seq : i < j => seq[i] <= seq[j]

\* C21: the combined report lists the outlet points in the order of the
\* input outlet table, or sorted by id, in single mode and in partial mode,
\* also when the points of different watersheds are interleaved in the input.
C21_ReportKeepsInputOrder ==
    run_pc = "reported" =>
        \/ Ids(report) = Ids(outlets)
        \/ (Ascending(Ids(report)) /\ Range(Ids(report)) = Range(Ids(outlets))
               /\ Len(report) = Len(outlets))

RunEnded == run_pc \in {"reported", "raised"}

\* the row was processed with the grids of watershed w: its area is the area
\* of the catchment of its snapped cell on the direction grid of w
ProcessedWith(row, w) ==
    /\ row.snap_long /= FloatNaN /\ row.snap_lat /= FloatNaN
    /\ row.CalculatedArea =
           Float(CalculatedArea(Catchment(DirectionFile(w),
                                          Index(row.snap_long[1], row.snap_lat[1])),
                                BatchShape))

\* C28: in partial mode every input outlet point yields exactly one row of
\* the combined report, processed with the grids of the watershed the point
\* was joined to; a point that lies in no watershed polygon neither is
\* missing from the report nor keeps the points of the other watersheds
\* from being processed and reported.
C28_PartialOneRowPerPoint ==
    (config.MODE = "partial" /\ ConfigValid(config)
        /\ col_headers \subseteq outlet_file.columns /\ RunEnded) =>
        /\ run_pc = "reported"
        /\ Len(report) = Len(outlet_file.rows)
        /\ \A k \in DOMAIN outlet_file.rows :
               /\ Cardinality({j \in DOMAIN report :
                                  report[j].id = outlet_file.rows[k].id}) = 1
               /\ \A j \in DOMAIN report :
                      (report[j].id = outlet_file.rows[k].id
                          /\ report[j].Watershed_ID /= NaN) =>
                          ProcessedWith(report[j], report[j].Watershed_ID)

-----------------------------------------------------------------------------
(* Claims about the river step of process_watershed_points                 *)

LacksStrahler == river_vector /= NoRiver /\ "strahler" \notin river_vector.columns

\* the row of the point the loop is working on
CurrentRow == points_copy[CHOOSE k \in DOMAIN points_copy : points_copy[k].id = points[point_i].id]

\* the river step of a point is over: its row has just been written
RiverStepDone == batch_pc = "loop" /\ point_i >= 1 /\ clip_pc = "done"

\* clip_river_network has returned for the point the loop is working on
ClipReturned == clip_pc = "done" /\ batch_pc \in {"clip", "loop"}

\* C19 as stated: when the network lacks the strahler attribute, processing
\* does not fail, a warning is issued, the river step is skipped (no river
\* is clipped for the point), and that outcome is recorded in the point's
\* river status.
C19_MissingStrahlerSkipsRiverStep ==
    (RiverStepDone /\ LacksStrahler) =>
        /\ StrahlerWarning \in Range(warnings_issued)
        /\ clipped_river_network = <<>>
        /\ CurrentRow.river_status \notin {NaN, "-", "", "No rivers clipped within the given basin."}

\* C19 amended: when the network lacks the strahler attribute, processing
\* does not fail and a UserWarning is issued; the river step is not skipped:
\* the network is clipped to the catchment polygon and every clipped feature
\* is kept, no filter applied; the point's river status is the one of any
\* clip, empty when a feature was clipped and "No rivers clipped within the
\* given basin." when none was, and says nothing of the missing attribute.
C19_MissingStrahlerNoFilter ==
    /\ (LacksStrahler /\ ClipReturned) =>
           /\ StrahlerWarning \in Range(warnings_issued)
           /\ ReturnedIds = {river_vector.rows[k].id : k \in InPolygon}
           /\ clip_feedback = IF InPolygon = {} THEN "No rivers clipped within the given basin."
                              ELSE ""
    /\ (LacksStrahler /\ RiverStepDone) => CurrentRow.river_status = clip_feedback
    /\ (LacksStrahler /\ batch_pc = "raised") => snap_pc = "IndexError"

\* C19 witness: with a network without the strahler column, one point's row
\* has been written with an empty status after all three features of the
\* network were clipped, and another clip has found no river
C19_Witness ==
    /\ LacksStrahler
    /\ RiverStepDone
    /\ point_i = 2
    /\ clipped_river_network = <<>>
    /\ CurrentRow.river_status = "No rivers clipped within the given basin."
    /\ \E k \in DOMAIN points_copy : points_copy[k].river_status = ""

-----------------------------------------------------------------------------
(* Claims about repeated calls of the trace                                *)

====
